---- MODULE Spec2Model ----
(***************************************************************************)
(* Model of the dependency graph of glosure (depgraph/depgraph.go).        *)
(*                                                                         *)
(* A Go *Node is an object on the heap; g.Nodes maps a package name to a   *)
(* pointer, and a node's Dependencies list holds pointers.  heap[n] is the *)
(* sequence of the Node objects AddFile has allocated for package n, in    *)
(* allocation order; the pointer <<n, k>> is the k-th of them, and NoNode  *)
(* stands for an absent map entry.  Replacing a map entry does not touch   *)
(* the object it pointed to: edges pushed earlier keep pointing to it.     *)
(***************************************************************************)
EXTENDS Integers, Sequences, FiniteSets, TLC

Names == {"pkg1", "pkg2", "pkg3", "pkg4"}

\* The (package, path) pairs the scanner hands to AddFile.  pkg3 is provided
\* by file3 and also by file2 (a file may provide several packages, and a
\* package may be found again); pkg4 is required but provided by no file.
FileInputs ==
  { <<"pkg1", "file1">>, <<"pkg2", "file2">>,
    <<"pkg3", "file3">>, <<"pkg3", "file2">> }

\* Bounds of Spec: Node objects allocated by AddFile, successful PushBack
\* calls, and the length of the entry list of GetDependencies.
MaxNodes == 3
MaxEdges == 2
MaxEntries == 1

\* Bounds of SpecWide, which has room for a re-registration on top of three
\* packages, for the three edges of the chain scenario and for entry lists of
\* two nodes.
WideNodes == 4
WideEdges == 3
WideEntries == 2

NoNode == <<"", 0>>

\* heap and Nodes are the graph; last is the most recent call with its
\* arguments and what it returned; pre is the graph as that call found it;
\* cc is the Compiler of glosure.go that owns the graph, with its mutex and
\* the Compile calls in progress.
VARIABLES heap, Nodes, last, pre, cc

vars == <<heap, Nodes, last, pre, cc>>

depg == <<heap, Nodes, last, pre>>

Ptrs(h) == UNION { { <<n, k>> : k \in 1..Len(h[n]) } : n \in Names }

At(h, p) == h[p[1]][p[2]]

\* ---------------------------------------------------------------------
\* Small sequence helpers
\* ---------------------------------------------------------------------
Range(s) == { s[i] : i \in 1..Len(s) }

RECURSIVE Sum(_, _)
Sum(f, S) ==
  IF S = {} THEN 0
  ELSE LET x == CHOOSE y \in S : TRUE IN f[x] + Sum(f, S \ {x})

NumNodes(h) == Sum([n \in Names |-> Len(h[n])], Names)

NumEdges(h) ==
  Sum([p \in Ptrs(h) |-> Len(At(h, p).Dependencies)], Ptrs(h))

\* ---------------------------------------------------------------------
\* depgraph.go
\* ---------------------------------------------------------------------
Node(pkg, path) == [Pkg |-> pkg, Path |-> path, Dependencies |-> <<>>]

\* Variant of the constructor whose map already holds an entry.
NewPrefilled == [n \in Names |-> IF n = "pkg1" THEN <<"pkg1", 1>> ELSE NoNode]

New == [n \in Names |-> NoNode]

\* Variant of the test that finds nothing.
containsNothing(h, nodes, newNode) == FALSE

contains(h, nodes, newNode) ==
  \E i \in 1..Len(nodes) : At(h, nodes[i]).Path = At(h, newNode).Path

containsPkg(h, nodes, pkg) ==
  \E i \in 1..Len(nodes) : At(h, nodes[i]).Pkg = pkg

\* Variant of the cycle check that looks at the node itself only and does
\* not descend into its dependencies.
isRecursivelyDependentOnSelfOnly(h, n, pkg, checked) ==
  pkg = At(h, n).Pkg

\* The append to checked at the end of the Go function writes a local slice
\* header only: the caller's slice keeps its length, so every call of one
\* check receives the checked slice of the top call.
RECURSIVE isRecursivelyDependentOnWithCache(_, _, _, _)
isRecursivelyDependentOnWithCache(h, n, pkg, checked) ==
  IF pkg = At(h, n).Pkg THEN TRUE
  ELSE IF containsPkg(h, checked, pkg) THEN FALSE
  ELSE \E i \in 1..Len(At(h, n).Dependencies) :
         isRecursivelyDependentOnWithCache(h, At(h, n).Dependencies[i], pkg, checked)

\* The receivers of the calls of isRecursivelyDependentOnWithCache that one
\* check makes, in the order it makes them: the call on n, and, unless it
\* returns at line 119 or 123, the calls of the loop of lines 127-131 up to
\* the first one that returns true.
RECURSIVE isRecursivelyDependentOnWithCacheCalls(_, _, _, _)
RECURSIVE isRecursivelyDependentOnLoopCalls(_, _, _, _)
isRecursivelyDependentOnLoopCalls(h, edges, pkg, checked) ==
  IF edges = <<>> THEN <<>>
  ELSE isRecursivelyDependentOnWithCacheCalls(h, Head(edges), pkg, checked)
       \o (IF isRecursivelyDependentOnWithCache(h, Head(edges), pkg, checked)
             THEN <<>>
             ELSE isRecursivelyDependentOnLoopCalls(h, Tail(edges), pkg, checked))

isRecursivelyDependentOnWithCacheCalls(h, n, pkg, checked) ==
  IF pkg = At(h, n).Pkg \/ containsPkg(h, checked, pkg) THEN <<n>>
  ELSE <<n>> \o isRecursivelyDependentOnLoopCalls(h, At(h, n).Dependencies,
                                                  pkg, checked)

\* Variant of the cycle check that never finds a dependency.
isRecursivelyDependentOnNever(h, n, pkg) == FALSE

isRecursivelyDependentOn(h, n, pkg) ==
  isRecursivelyDependentOnWithCache(h, n, pkg, <<>>)

\* Variant of the merge loop that leaves the caller's list as it was.
mergeDepsNone(h, eDeps, deps) == deps

\* Variant of the merge loop without the contains test.
mergeDepsUnfiltered(h, eDeps, deps) == deps \o eDeps

\* Lines 74-79: the nodes of eDeps whose path is not yet in deps are appended.
RECURSIVE mergeDeps(_, _, _)
mergeDeps(h, eDeps, deps) ==
  IF eDeps = <<>> THEN deps
  ELSE IF contains(h, deps, Head(eDeps))
       THEN mergeDeps(h, Tail(eDeps), deps)
       ELSE mergeDeps(h, Tail(eDeps), Append(deps, Head(eDeps)))

\* getDependencies is the loop over nodes (lines 67-83); expandEdges is the
\* loop over node.Dependencies (lines 72-80).  Slices are modelled by value:
\* the callee's appends land behind the caller's length and are rewritten
\* by the caller's own appends in the same order.
RECURSIVE getDependencies(_, _, _)
RECURSIVE expandEdges(_, _, _)
expandEdges(h, edges, deps) ==
  IF edges = <<>> THEN deps
  ELSE expandEdges(h, Tail(edges),
                   mergeDeps(h, getDependencies(h, <<Head(edges)>>, deps), deps))

getDependencies(h, nodes, deps) ==
  IF nodes = <<>> THEN deps
  ELSE IF contains(h, deps, Head(nodes))
       THEN getDependencies(h, Tail(nodes), deps)
       ELSE getDependencies(h, Tail(nodes),
              Append(expandEdges(h, At(h, Head(nodes)).Dependencies, deps),
                     Head(nodes)))

\* The nodes that one traversal expands, in the order it does: a node is
\* expanded when it passes the test of line 68 and the loop of lines 72-80
\* runs over its Dependencies.  The lists passed on are those of
\* getDependencies and expandEdges.
RECURSIVE getDependenciesExpanded(_, _, _)
RECURSIVE expandEdgesExpanded(_, _, _)
expandEdgesExpanded(h, edges, deps) ==
  IF edges = <<>> THEN <<>>
  ELSE getDependenciesExpanded(h, <<Head(edges)>>, deps)
       \o expandEdgesExpanded(h, Tail(edges),
            mergeDeps(h, getDependencies(h, <<Head(edges)>>, deps), deps))

getDependenciesExpanded(h, nodes, deps) ==
  IF nodes = <<>> THEN <<>>
  ELSE IF contains(h, deps, Head(nodes))
       THEN getDependenciesExpanded(h, Tail(nodes), deps)
       ELSE <<Head(nodes)>>
            \o expandEdgesExpanded(h, At(h, Head(nodes)).Dependencies, deps)
            \o getDependenciesExpanded(h, Tail(nodes),
                 Append(expandEdges(h, At(h, Head(nodes)).Dependencies, deps),
                        Head(nodes)))

GetDependenciesOf(h, nodes) == getDependencies(h, nodes, <<>>)

\* Variant of the lookup that returns the map entry it found, present or
\* not, without the test of ok and without the traversal.
GetDependenciesOfPackageEntryOnly(h, reg, pkg) == <<reg[pkg]>>

GetDependenciesOfPackageOf(h, reg, pkg) ==
  IF reg[pkg] = NoNode THEN <<>> ELSE GetDependenciesOf(h, <<reg[pkg]>>)

\* errors.New(prefix + names): the message is its prefix and the package
\* names concatenated into it.
NilErr == [kind |-> "nil", pkgs |-> <<>>]

\* Variant of the call that looks up from only and takes the (possibly nil)
\* map entry of to as it is.
AddDependencyErrFromOnly(h, reg, from, to) ==
  IF reg[from] = NoNode
    THEN [kind |-> "Package not found", pkgs |-> <<from>>]
  ELSE IF reg[to] # NoNode /\ isRecursivelyDependentOn(h, reg[to], from)
    THEN [kind |-> "Circular dependency", pkgs |-> <<from, to>>]
  ELSE NilErr

AddDependencyErr(h, reg, from, to) ==
  IF reg[from] = NoNode
    THEN [kind |-> "Package not found", pkgs |-> <<from>>]
  ELSE IF reg[to] = NoNode
    THEN [kind |-> "Package not found", pkgs |-> <<to>>]
  ELSE IF isRecursivelyDependentOn(h, reg[to], from)
    THEN [kind |-> "Circular dependency", pkgs |-> <<from, to>>]
  ELSE NilErr

\* Variant of the list insertion that puts the new edge in front.
PushFront(h, fromNode, toNode) ==
  [h EXCEPT ![fromNode[1]][fromNode[2]].Dependencies = <<toNode>> \o @]

PushBack(h, fromNode, toNode) ==
  [h EXCEPT ![fromNode[1]][fromNode[2]].Dependencies = Append(@, toNode)]

\* Variant of the call that pushes the edge before the cycle check.
AddDependencyHeapPushFirst(h, reg, from, to) ==
  IF reg[from] # NoNode /\ reg[to] # NoNode
    THEN PushBack(h, reg[from], reg[to])
    ELSE h

\* Variant of the call that pushes the map entry of to without the test of
\* ok at line 41.
AddDependencyHeapUnchecked(h, reg, from, to) ==
  IF reg[from] = NoNode THEN h
  ELSE IF reg[to] # NoNode /\ AddDependencyErr(h, reg, from, to) # NilErr THEN h
  ELSE PushBack(h, reg[from], reg[to])

AddDependencyHeap(h, reg, from, to) ==
  IF AddDependencyErr(h, reg, from, to) = NilErr
    THEN PushBack(h, reg[from], reg[to])
    ELSE h

\* ---------------------------------------------------------------------
\* glosure.go: the source tree as the two scanners see it, and the Compiler
\* ---------------------------------------------------------------------
\* The requests served concurrently, each one Compile call at a time.
Procs == {"c1", "c2"}

\* A source file: its path, the names of its goog.provide statements and
\* the names of its goog.require statements, in the order of the text.
SourceFile(path, provides, requires) ==
  [Path |-> path, provides |-> provides, requires |-> requires]

\* The trees under cc.Root, each in the lexical order filepath.Walk visits
\* it: file1 provides pkg1; file2 provides nothing, pkg2, pkg2 and pkg3, or
\* pkg1 again.  pkg4 is required and provided by no file.
Roots ==
  { << SourceFile("file1", <<"pkg1">>, r1), SourceFile("file2", p2, r2) >> :
      r1 \in { <<>>, <<"pkg2">>, <<"pkg4">>, <<"pkg2", "pkg3">> },
      p2 \in { <<>>, <<"pkg2">>, <<"pkg2", "pkg3">>, <<"pkg1">> },
      r2 \in { <<>>, <<"pkg1">> } }

FileAt(root, path) ==
  root[CHOOSE i \in 1..Len(root) : root[i].Path = path]

\* The empty list stands for the error "No closure package found.".
getClosurePackage(root, path) == FileAt(root, path).provides

\* The empty list stands for the nil list.
getClosureDependecies(root, path) == FileAt(root, path).requires

\* The AddFile calls of the walk function, in the order of the walk.
RECURSIVE Walk(_)
Walk(root) ==
  IF root = <<>> THEN <<>>
  ELSE [i \in 1..Len(Head(root).provides) |->
          <<Head(root).provides[i], Head(root).Path>>] \o Walk(Tail(root))

\* A Compile call: where it is, its locals, the errors AddDependency
\* returned to its reloadDependencyGraph, the file list it built, whether
\* the compiler ran on it, and what the call returned.
NoCompile ==
  [pc |-> "idle", srcPath |-> "", srcPkgs |-> <<>>, useClosureDeps |-> FALSE,
   walk |-> <<>>, visited |-> {}, node |-> "", deps |-> <<>>,
   dropped |-> {}, jsFiles |-> <<>>, compiled |-> FALSE, ret |-> "none"]

NewCompiler(root) ==
  [Root |-> root, mutex |-> "", call |-> [p \in Procs |-> NoCompile]]

\* ---------------------------------------------------------------------
\* State machine: one action per exported operation
\* ---------------------------------------------------------------------
NoCall ==
  [op |-> "New", pkg |-> "", path |-> "", from |-> "", to |-> "",
   entries |-> <<>>, err |-> NilErr, result |-> <<>>]

Init ==
  /\ heap = [n \in Names |-> <<>>]
  /\ Nodes = New
  /\ last = NoCall
  /\ pre = [heap |-> heap, Nodes |-> Nodes]
  /\ cc = NewCompiler(<<>>)

\* Variant of the registration that carries the edges of the node it
\* replaces over to the new node.
AddFileKeepEdges(pkg, path) ==
  /\ heap' = [heap EXCEPT ![pkg] =
                Append(@, IF Nodes[pkg] = NoNode THEN Node(pkg, path)
                          ELSE [Node(pkg, path) EXCEPT !.Dependencies =
                                  At(heap, Nodes[pkg]).Dependencies])]
  /\ Nodes' = [Nodes EXCEPT ![pkg] = <<pkg, Len(heap[pkg]) + 1>>]
  /\ last' = [NoCall EXCEPT !.op = "AddFile", !.pkg = pkg, !.path = path]
  /\ pre' = [heap |-> heap, Nodes |-> Nodes]

\* Variant of the registration that overwrites the node object the registry
\* holds for the name instead of allocating one.
AddFileInPlace(pkg, path) ==
  /\ IF Nodes[pkg] = NoNode
       THEN /\ heap' = [heap EXCEPT ![pkg] = Append(@, Node(pkg, path))]
            /\ Nodes' = [Nodes EXCEPT ![pkg] = <<pkg, Len(heap[pkg]) + 1>>]
       ELSE /\ heap' = [heap EXCEPT ![pkg][Nodes[pkg][2]] = Node(pkg, path)]
            /\ Nodes' = Nodes
  /\ last' = [NoCall EXCEPT !.op = "AddFile", !.pkg = pkg, !.path = path]
  /\ pre' = [heap |-> heap, Nodes |-> Nodes]

AddFile(pkg, path) ==
  /\ heap' = [heap EXCEPT ![pkg] = Append(@, Node(pkg, path))]
  /\ Nodes' = [Nodes EXCEPT ![pkg] = <<pkg, Len(heap[pkg]) + 1>>]
  /\ last' = [NoCall EXCEPT !.op = "AddFile", !.pkg = pkg, !.path = path]
  /\ pre' = [heap |-> heap, Nodes |-> Nodes]

AddDependency(from, to) ==
  /\ heap' = AddDependencyHeap(heap, Nodes, from, to)
  /\ Nodes' = Nodes
  /\ last' = [NoCall EXCEPT !.op = "AddDependency", !.from = from, !.to = to,
                            !.err = AddDependencyErr(heap, Nodes, from, to)]
  /\ pre' = [heap |-> heap, Nodes |-> Nodes]

\* Variant of the query that empties the dependency list of each entry as
\* it walks it.
GetDependenciesConsuming(nodes) ==
  /\ last' = [NoCall EXCEPT !.op = "GetDependencies", !.entries = nodes,
                            !.result = GetDependenciesOf(heap, nodes)]
  /\ pre' = [heap |-> heap, Nodes |-> Nodes]
  /\ heap' = [n \in Names |->
                [k \in 1..Len(heap[n]) |->
                   IF <<n, k>> \in Range(nodes)
                     THEN [heap[n][k] EXCEPT !.Dependencies = <<>>]
                     ELSE heap[n][k]]]
  /\ UNCHANGED Nodes

GetDependencies(nodes) ==
  /\ last' = [NoCall EXCEPT !.op = "GetDependencies", !.entries = nodes,
                            !.result = GetDependenciesOf(heap, nodes)]
  /\ pre' = [heap |-> heap, Nodes |-> Nodes]
  /\ UNCHANGED <<heap, Nodes>>

\* Variant of the lookup that enters a node with an empty path under a name
\* it does not find.
GetDependenciesOfPackageInserting(pkg) ==
  /\ last' = [NoCall EXCEPT !.op = "GetDependenciesOfPackage", !.pkg = pkg,
                            !.entries = IF Nodes[pkg] = NoNode THEN <<>>
                                        ELSE <<Nodes[pkg]>>,
                            !.result = GetDependenciesOfPackageOf(heap, Nodes, pkg)]
  /\ pre' = [heap |-> heap, Nodes |-> Nodes]
  /\ IF Nodes[pkg] = NoNode
       THEN /\ heap' = [heap EXCEPT ![pkg] = Append(@, Node(pkg, ""))]
            /\ Nodes' = [Nodes EXCEPT ![pkg] = <<pkg, Len(heap[pkg]) + 1>>]
       ELSE UNCHANGED <<heap, Nodes>>

\* On a hit the entry list is the single node found in the registry.
GetDependenciesOfPackage(pkg) ==
  /\ last' = [NoCall EXCEPT !.op = "GetDependenciesOfPackage", !.pkg = pkg,
                            !.entries = IF Nodes[pkg] = NoNode THEN <<>>
                                        ELSE <<Nodes[pkg]>>,
                            !.result = GetDependenciesOfPackageOf(heap, Nodes, pkg)]
  /\ pre' = [heap |-> heap, Nodes |-> Nodes]
  /\ UNCHANGED <<heap, Nodes>>

Registered(reg) == { reg[n] : n \in Names } \ {NoNode}

RECURSIVE SeqsUpTo(_, _)
SeqsUpTo(S, k) ==
  IF k = 0 THEN { <<>> }
  ELSE LET shorter == SeqsUpTo(S, k - 1)
       IN  shorter \cup { Append(s, x) : s \in shorter, x \in S }

\* The caller's calls, within the bounds: a successful AddDependency needs
\* room for one more edge, a failing one is always possible.
NextB(maxNodes, maxEdges, maxEntries) ==
  \/ \E f \in FileInputs :
        /\ NumNodes(heap) < maxNodes
        /\ AddFile(f[1], f[2])
        /\ UNCHANGED cc
  \/ \E from \in Names, to \in Names :
        /\ AddDependencyErr(heap, Nodes, from, to) = NilErr
             => NumEdges(heap) < maxEdges
        /\ AddDependency(from, to)
        /\ UNCHANGED cc
  \/ \E nodes \in SeqsUpTo(Registered(Nodes), maxEntries) :
        GetDependencies(nodes) /\ UNCHANGED cc
  \/ \E pkg \in Names :
        GetDependenciesOfPackage(pkg) /\ UNCHANGED cc

Next == NextB(MaxNodes, MaxEdges, MaxEntries)

Spec == Init /\ [][Next]_vars

NextWide == NextB(WideNodes, WideEdges, WideEntries)

SpecWide == Init /\ [][NextWide]_vars

\* ---------------------------------------------------------------------
\* State machine of the Compiler: the steps of Compile, the graph calls
\* among them being the actions above
\* ---------------------------------------------------------------------
\* Lines 529-548: the call scans the source file for its packages.
Compile(p, srcPath) ==
  /\ cc.call[p].pc = "idle"
  /\ cc' = [cc EXCEPT !.call[p] =
              [NoCompile EXCEPT
                 !.pc = "Lock",
                 !.srcPath = srcPath,
                 !.srcPkgs = getClosurePackage(cc.Root, srcPath),
                 !.useClosureDeps = getClosurePackage(cc.Root, srcPath) # <<>>]]
  /\ UNCHANGED depg

\* Variant of the step that does not wait for the mutex to be free.
mutexLockNoWait(p) ==
  /\ cc.call[p].pc = "Lock"
  /\ LET c == cc.call[p]
     IN  cc' = [cc EXCEPT
                  !.mutex = p,
                  !.call[p] =
                    IF ~c.useClosureDeps
                      THEN [c EXCEPT !.pc = "compile", !.jsFiles = <<c.srcPath>>]
                    ELSE IF Registered(Nodes) = {}
                      THEN [c EXCEPT !.pc = "Walk", !.walk = Walk(cc.Root)]
                    ELSE [c EXCEPT !.pc = "GetDependencies"]]
  /\ UNCHANGED depg

\* Lines 550-558 and 573-575: the mutex is taken; the call then reloads an
\* empty graph, looks its packages up, or compiles the source file alone.
mutexLock(p) ==
  /\ cc.call[p].pc = "Lock"
  /\ cc.mutex = ""
  /\ LET c == cc.call[p]
     IN  cc' = [cc EXCEPT
                  !.mutex = p,
                  !.call[p] =
                    IF ~c.useClosureDeps
                      THEN [c EXCEPT !.pc = "compile", !.jsFiles = <<c.srcPath>>]
                    ELSE IF Registered(Nodes) = {}
                      THEN [c EXCEPT !.pc = "Walk", !.walk = Walk(cc.Root)]
                    ELSE [c EXCEPT !.pc = "GetDependencies"]]
  /\ UNCHANGED depg

\* Lines 733-749: the next AddFile call of the walk.
reloadDependencyGraphWalk(p) ==
  /\ cc.call[p].pc = "Walk"
  /\ AddFile(Head(cc.call[p].walk)[1], Head(cc.call[p].walk)[2])
  /\ cc' = [cc EXCEPT
              !.call[p].pc = IF Tail(cc.call[p].walk) = <<>> THEN "range"
                             ELSE "Walk",
              !.call[p].walk = Tail(@)]

\* Lines 751-755: the range over the map takes a node it has not visited
\* yet, in the order of the map iteration, and scans its file for the
\* packages it requires.
reloadDependencyGraphRange(p) ==
  /\ cc.call[p].pc = "range"
  /\ cc.call[p].deps = <<>>
  /\ \E n \in Names :
       /\ Nodes[n] # NoNode
       /\ n \notin cc.call[p].visited
       /\ cc' = [cc EXCEPT
                   !.call[p].visited = @ \cup {n},
                   !.call[p].node = n,
                   !.call[p].deps =
                     getClosureDependecies(cc.Root, At(heap, Nodes[n]).Path)]
  /\ UNCHANGED depg

\* Lines 756-759: the next AddDependency call of the node; what it returns
\* is not assigned.
reloadDependencyGraphAddDependency(p) ==
  /\ cc.call[p].pc = "range"
  /\ cc.call[p].deps # <<>>
  /\ AddDependency(cc.call[p].node, Head(cc.call[p].deps))
  /\ LET err == AddDependencyErr(heap, Nodes, cc.call[p].node,
                                 Head(cc.call[p].deps))
     IN  cc' = [cc EXCEPT
                  !.call[p].deps = Tail(@),
                  !.call[p].dropped = IF err = NilErr THEN @ ELSE @ \cup {err}]

\* Line 761: the range is over and reloadDependencyGraph returns.
reloadDependencyGraphReturn(p) ==
  /\ cc.call[p].pc = "range"
  /\ cc.call[p].deps = <<>>
  /\ Registered(Nodes) = { Nodes[n] : n \in cc.call[p].visited }
  /\ cc' = [cc EXCEPT !.call[p].pc = "GetDependencies"]
  /\ UNCHANGED depg

\* Lines 559-572: every package of the source file is looked up under the
\* name srcPkgs[0]; a miss returns the error and releases the mutex, else
\* the dependencies of the nodes found give the file list.
CompileGetDependencies(p) ==
  /\ cc.call[p].pc = "GetDependencies"
  /\ LET c == cc.call[p]
         nodes == [i \in 1..Len(c.srcPkgs) |-> Nodes[c.srcPkgs[1]]]
     IN  IF Nodes[c.srcPkgs[1]] = NoNode
           THEN /\ cc' = [cc EXCEPT
                           !.mutex = "",
                           !.call[p].pc = "idle",
                           !.call[p].ret = "Package not found in Root"]
                /\ UNCHANGED depg
           ELSE /\ GetDependencies(nodes)
                /\ cc' = [cc EXCEPT
                           !.call[p].pc = "compile",
                           !.call[p].jsFiles =
                             LET deps == GetDependenciesOf(heap, nodes)
                             IN  [i \in 1..Len(deps) |-> At(heap, deps[i]).Path]]

\* Lines 577-581: the compiler runs on the file list and Compile returns
\* what it returns, nil or its error; the deferred Unlock releases the mutex.
CompileWithClosure(p) ==
  /\ cc.call[p].pc = "compile"
  /\ \E err \in {"nil", "Compilation error"} :
       cc' = [cc EXCEPT
                !.mutex = "",
                !.call[p].pc = "idle",
                !.call[p].compiled = TRUE,
                !.call[p].ret = err]
  /\ UNCHANGED depg

InitCompile ==
  /\ heap = [n \in Names |-> <<>>]
  /\ Nodes = New
  /\ last = NoCall
  /\ pre = [heap |-> heap, Nodes |-> Nodes]
  /\ \E root \in Roots : cc = NewCompiler(root)

NextCompile ==
  \E p \in Procs :
    \/ \E i \in 1..Len(cc.Root) : Compile(p, cc.Root[i].Path)
    \/ mutexLock(p)
    \/ reloadDependencyGraphWalk(p)
    \/ reloadDependencyGraphRange(p)
    \/ reloadDependencyGraphAddDependency(p)
    \/ reloadDependencyGraphReturn(p)
    \/ CompileGetDependencies(p)
    \/ CompileWithClosure(p)

SpecCompile == InitCompile /\ [][NextCompile]_vars

TypeOK ==
  /\ \A n \in Names : Nodes[n] \in Ptrs(heap) \cup {NoNode}
  /\ \A p \in Ptrs(heap) : Range(At(heap, p).Dependencies) \subseteq Ptrs(heap)

\* ---------------------------------------------------------------------
\* Graph vocabulary of the properties, defined on the stored edges alone
\* ---------------------------------------------------------------------
Succ(h, p) == Range(At(h, p).Dependencies)

RECURSIVE Closure(_, _, _)
Closure(h, frontier, seen) ==
  IF frontier = {} THEN seen
  ELSE LET new == (UNION { Succ(h, p) : p \in frontier }) \ seen
       IN  Closure(h, new, seen \cup new)

\* The nodes reachable from p by zero or more edges, and by one or more.
Reach(h, p) == Closure(h, {p}, {p})
ReachPlus(h, p) == Closure(h, Succ(h, p), Succ(h, p))

ReachesPkg(h, p, pkg) == \E q \in Reach(h, p) : At(h, q).Pkg = pkg

Pkgs(h, nodes) == [i \in 1..Len(nodes) |-> At(h, nodes[i]).Pkg]

IsQuery == last.op \in {"GetDependencies", "GetDependenciesOfPackage"}

Failed == last.op = "AddDependency" /\ last.err # NilErr

BothRegistered ==
  /\ last.op = "AddDependency"
  /\ pre.Nodes[last.from] # NoNode
  /\ pre.Nodes[last.to] # NoNode

\* No node object reaches itself: the pointer graph is a DAG, so both
\* recursions of depgraph.go end.
NoPointerCycle == \A p \in Ptrs(heap) : p \notin ReachPlus(heap, p)

\* ---------------------------------------------------------------------
\* C1 - Acyclicity: in every reachable state, no registered package reaches a
\* node of its own package name by following one or more stored edges.
\* ---------------------------------------------------------------------
C1_Acyclic ==
  \A n \in Names :
    Nodes[n] # NoNode =>
      \A q \in ReachPlus(heap, Nodes[n]) : At(heap, q).Pkg # n

\* ---------------------------------------------------------------------
\* C2 - Atomicity of rejected edges: after an AddDependency call that
\* returned an error, the registry, every node (path and dependency
\* sequence) and the result of GetDependencies for every entry list are what
\* they were before the call.
\* ---------------------------------------------------------------------
C2_RejectedEdgeAtomic ==
  Failed =>
    /\ Nodes = pre.Nodes
    /\ heap = pre.heap
    /\ \A nodes \in SeqsUpTo(Registered(pre.Nodes), MaxEntries + 1) :
         GetDependenciesOf(heap, nodes) = GetDependenciesOf(pre.heap, nodes)

\* A cycle was rejected in a graph that has an edge to lose.
C2_Witness ==
  /\ Failed
  /\ last.err.kind = "Circular dependency"
  /\ last.from # last.to
  /\ NumEdges(pre.heap) > 0

\* ---------------------------------------------------------------------
\* C3 - With both endpoints registered, AddDependency(from, to) returns the
\* cycle error exactly when the node of to reaches, by zero or more stored
\* edges, a node of package from; otherwise it returns no error and pushes
\* the edge.
\* ---------------------------------------------------------------------
C3_CycleIffReaches ==
  BothRegistered =>
    IF ReachesPkg(pre.heap, pre.Nodes[last.to], last.from)
      THEN last.err.kind = "Circular dependency"
      ELSE /\ last.err = NilErr
           /\ At(heap, pre.Nodes[last.from]).Dependencies =
                Append(At(pre.heap, pre.Nodes[last.from]).Dependencies,
                       pre.Nodes[last.to])

\* The rejected edge would close a cycle of three packages.
C3_Witness ==
  /\ BothRegistered
  /\ last.err.kind = "Circular dependency"
  /\ pre.Nodes[last.from] \notin Succ(pre.heap, pre.Nodes[last.to])
  /\ last.from # last.to

\* ---------------------------------------------------------------------
\* C4 - AddDependency(from, to) returns the unknown-package error whenever
\* from or to is not registered, whatever the other endpoint is, and adds no
\* edge.
\* ---------------------------------------------------------------------
C4_UnknownPackage ==
  (/\ last.op = "AddDependency"
   /\ \/ pre.Nodes[last.from] = NoNode
      \/ pre.Nodes[last.to] = NoNode)
  => /\ last.err.kind = "Package not found"
     /\ heap = pre.heap
     /\ Nodes = pre.Nodes

\* from is registered and already has an edge, to is not registered.
C4_Witness ==
  /\ last.op = "AddDependency"
  /\ pre.Nodes[last.from] # NoNode
  /\ pre.Nodes[last.to] = NoNode
  /\ Succ(pre.heap, pre.Nodes[last.from]) # {}
  /\ last.err.kind = "Package not found"

\* ---------------------------------------------------------------------
\* C5 - Dependency-first ordering: every node in the list returned by
\* GetDependencies comes after every node it has a dependency edge to.
\* ---------------------------------------------------------------------
C5_DependencyFirst ==
  IsQuery =>
    \A i \in 1..Len(last.result) :
      \A d \in Succ(heap, last.result[i]) :
        \E j \in 1..(i - 1) : last.result[j] = d

\* ---------------------------------------------------------------------
\* C6 - Dedup: no package name occurs twice in the list returned by
\* GetDependencies.
\* ---------------------------------------------------------------------
C6_Dedup ==
  IsQuery =>
    \A i, j \in 1..Len(last.result) :
      i # j => At(heap, last.result[i]).Pkg # At(heap, last.result[j]).Pkg

\* ---------------------------------------------------------------------
\* C7 - Closure exactness: the set of nodes in the list returned by
\* GetDependencies is the set of nodes reachable from the entries by zero or
\* more stored edges.
\* ---------------------------------------------------------------------
C7_ClosureExact ==
  IsQuery =>
    Range(last.result) = UNION { Reach(heap, e) : e \in Range(last.entries) }

\* ---------------------------------------------------------------------
\* C8 - Traversal order: the list returned by GetDependencies is the
\* postorder of the depth-first search that takes the entries in order and
\* each node's edges in insertion order, and skips a node already emitted.
\* ---------------------------------------------------------------------
RECURSIVE PostorderList(_, _, _)
RECURSIVE PostorderNode(_, _, _)
PostorderNode(h, p, out) ==
  IF p \in Range(out) THEN out
  ELSE Append(PostorderList(h, At(h, p).Dependencies, out), p)

PostorderList(h, nodes, out) ==
  IF nodes = <<>> THEN out
  ELSE PostorderList(h, Tail(nodes), PostorderNode(h, Head(nodes), out))

C8_Postorder ==
  IsQuery => last.result = PostorderList(heap, last.entries, <<>>)

\* ---------------------------------------------------------------------
\* C9 - Multiple entries: the list returned for the entries e1, ..., ek is
\* the list returned for e1 alone followed, for each later entry in turn, by
\* the nodes of the list returned for that entry alone that were not emitted
\* before; two entries that share a dependency are both emitted, after a
\* single occurrence of the shared node.
\* ---------------------------------------------------------------------
RECURSIVE EntryByEntry(_, _, _)
EntryByEntry(h, nodes, out) ==
  IF nodes = <<>> THEN out
  ELSE LET own == GetDependenciesOf(h, <<Head(nodes)>>)
           new == SelectSeq(own, LAMBDA p : p \notin Range(out))
       IN  EntryByEntry(h, Tail(nodes), out \o new)

Occurrences(s, x) == Cardinality({ i \in 1..Len(s) : s[i] = x })

Before(s, x, y) ==
  \E i, j \in 1..Len(s) : i < j /\ s[i] = x /\ s[j] = y

C9_MultipleEntries ==
  last.op = "GetDependencies" =>
    /\ last.result = EntryByEntry(heap, last.entries, <<>>)
    /\ \A a, b \in Range(last.entries) :
         a # b =>
           \A c \in (Succ(heap, a) \cap Succ(heap, b)) \ {a, b} :
             /\ Occurrences(last.result, c) = 1
             /\ Before(last.result, c, a)
             /\ Before(last.result, c, b)

\* ---------------------------------------------------------------------
\* C10 - Chain scenario of TestDependecy: with pkg1, pkg2, pkg3 registered
\* for file1, file2, file3, the edges pkg1->pkg2, pkg2->pkg3, pkg1->pkg3 are
\* accepted in that order, pkg3->pkg2 is then rejected as a cycle and
\* pkg4->pkg3 as an unknown package, and GetDependenciesOfPackage returns
\* [pkg3, pkg2, pkg1] for pkg1, [pkg3, pkg2] for pkg2 and [pkg3] for pkg3.
\* ---------------------------------------------------------------------
ChainNodes ==
  [n \in Names |-> IF n = "pkg4" THEN NoNode ELSE <<n, 1>>]

\* The heap in which the single nodes of pkg1, pkg2, pkg3 hold these edges.
ChainHeap(d1, d2, d3) ==
  [n \in Names |->
     CASE n = "pkg1" -> << [Pkg |-> "pkg1", Path |-> "file1", Dependencies |-> d1] >>
       [] n = "pkg2" -> << [Pkg |-> "pkg2", Path |-> "file2", Dependencies |-> d2] >>
       [] n = "pkg3" -> << [Pkg |-> "pkg3", Path |-> "file3", Dependencies |-> d3] >>
       [] OTHER -> <<>>]

Chain0 == ChainHeap(<<>>, <<>>, <<>>)
Chain1 == ChainHeap(<< <<"pkg2", 1>> >>, <<>>, <<>>)
Chain2 == ChainHeap(<< <<"pkg2", 1>> >>, << <<"pkg3", 1>> >>, <<>>)
Chain3 == ChainHeap(<< <<"pkg2", 1>>, <<"pkg3", 1>> >>, << <<"pkg3", 1>> >>, <<>>)

ChainCall(from, to, before) ==
  /\ last.op = "AddDependency"
  /\ last.from = from
  /\ last.to = to
  /\ pre.heap = before
  /\ pre.Nodes = ChainNodes

ChainQuery(pkg) ==
  /\ last.op = "GetDependenciesOfPackage"
  /\ last.pkg = pkg
  /\ heap = Chain3
  /\ Nodes = ChainNodes

C10_ChainScenario ==
  /\ ChainCall("pkg1", "pkg2", Chain0) => last.err = NilErr /\ heap = Chain1
  /\ ChainCall("pkg2", "pkg3", Chain1) => last.err = NilErr /\ heap = Chain2
  /\ ChainCall("pkg1", "pkg3", Chain2) => last.err = NilErr /\ heap = Chain3
  /\ ChainCall("pkg3", "pkg2", Chain3) =>
       last.err.kind = "Circular dependency" /\ heap = Chain3
  /\ ChainCall("pkg4", "pkg3", Chain3) =>
       last.err.kind = "Package not found" /\ heap = Chain3
  /\ ChainQuery("pkg1") => Pkgs(heap, last.result) = <<"pkg3", "pkg2", "pkg1">>
  /\ ChainQuery("pkg2") => Pkgs(heap, last.result) = <<"pkg3", "pkg2">>
  /\ ChainQuery("pkg3") => Pkgs(heap, last.result) = <<"pkg3">>

\* The scenario has run to its last query.
C10_Witness ==
  /\ ChainQuery("pkg1")
  /\ Len(last.result) = 3

C12_Reregistration ==
  (last.op = "AddFile" /\ pre.Nodes[last.pkg] # NoNode) =>
    LET n == Nodes[last.pkg]
    IN  /\ n \in Ptrs(heap) \ Ptrs(pre.heap)
        /\ At(heap, n).Pkg = last.pkg
        /\ At(heap, n).Path = last.path
        /\ At(heap, n).Dependencies = <<>>
        /\ GetDependenciesOfPackageOf(heap, Nodes, last.pkg) = <<n>>

\* The replaced node had an outgoing edge.
C12_Witness ==
  /\ last.op = "AddFile"
  /\ pre.Nodes[last.pkg] # NoNode
  /\ Succ(pre.heap, pre.Nodes[last.pkg]) # {}

\* ---------------------------------------------------------------------
\* C13 - After AddFile has replaced the node of a name, no registered node
\* holds an edge to the replaced node, and a query emits, for that name, the
\* node the registry now holds and nothing that only the replaced node
\* reaches.
\* ---------------------------------------------------------------------
C13_DependentsSeeNewNode ==
  /\ (last.op = "AddFile" /\ pre.Nodes[last.pkg] # NoNode) =>
       \A n \in Names :
         Nodes[n] # NoNode => pre.Nodes[last.pkg] \notin Succ(heap, Nodes[n])
  /\ IsQuery =>
       \A i \in 1..Len(last.result) :
         last.result[i] = Nodes[At(heap, last.result[i]).Pkg]

\* ---------------------------------------------------------------------
\* C14 - A successful AddDependency(from, to) appends the node of to at the
\* end of the dependency sequence of the node of from, keeps the earlier
\* edges in their order, and changes no other node and no registry entry.
\* ---------------------------------------------------------------------
C14_AppendFrame ==
  (last.op = "AddDependency" /\ last.err = NilErr) =>
    LET f == pre.Nodes[last.from]
        t == pre.Nodes[last.to]
        old == At(pre.heap, f).Dependencies
        new == At(heap, f).Dependencies
    IN  /\ Len(new) = Len(old) + 1
        /\ new[Len(new)] = t
        /\ \A i \in 1..Len(old) : new[i] = old[i]
        /\ At(heap, f).Pkg = At(pre.heap, f).Pkg
        /\ At(heap, f).Path = At(pre.heap, f).Path
        /\ Ptrs(heap) = Ptrs(pre.heap)
        /\ \A p \in Ptrs(heap) \ {f} : At(heap, p) = At(pre.heap, p)
        /\ Nodes = pre.Nodes

\* from already had an edge to another node.
C14_Witness ==
  /\ last.op = "AddDependency"
  /\ last.err = NilErr
  /\ Succ(pre.heap, pre.Nodes[last.from]) \ {pre.Nodes[last.to]} # {}

\* ---------------------------------------------------------------------
\* C15 - The package name is the identity key of the traversal: when two
\* nodes of different names and the same path are both reachable from the
\* entries, the returned list holds both of them and every node either has
\* an edge to.
\* ---------------------------------------------------------------------
C15_NameIsIdentity ==
  IsQuery =>
    LET closure == UNION { Reach(heap, e) : e \in Range(last.entries) }
    IN  \A p, q \in closure :
          (/\ At(heap, p).Pkg # At(heap, q).Pkg
           /\ At(heap, p).Path = At(heap, q).Path)
          => /\ {p, q} \subseteq Range(last.result)
             /\ Succ(heap, p) \cup Succ(heap, q) \subseteq Range(last.result)

\* ---------------------------------------------------------------------
\* C16 - GetDependenciesOfPackage(name) leaves the graph as it is; for a
\* name the registry does not hold it returns the empty list, and for a
\* registered name the list GetDependencies returns for the single entry
\* that is the node of name.
\* ---------------------------------------------------------------------
C16_OfPackage ==
  last.op = "GetDependenciesOfPackage" =>
    /\ heap = pre.heap
    /\ Nodes = pre.Nodes
    /\ last.err = NilErr
    /\ IF Nodes[last.pkg] = NoNode
         THEN last.result = <<>>
         ELSE last.result = GetDependenciesOf(heap, <<Nodes[last.pkg]>>)

\* The name is asked for in a graph that has nodes and an edge, and is not
\* registered.
C16_Witness ==
  /\ last.op = "GetDependenciesOfPackage"
  /\ Nodes[last.pkg] = NoNode
  /\ NumEdges(heap) > 0
  /\ last.result = <<>>

\* ---------------------------------------------------------------------
\* C17 - No dangling edges: every stored edge points to a node object that
\* AddFile has allocated, and an AddDependency call that changes the graph
\* found both of its names in the registry and added the edge between the
\* two nodes the registry held for them.
\* ---------------------------------------------------------------------
C17_NoDanglingEdges ==
  /\ \A p \in Ptrs(heap) : Succ(heap, p) \subseteq Ptrs(heap)
  /\ (last.op = "AddDependency" /\ heap # pre.heap) =>
       /\ pre.Nodes[last.from] \in Ptrs(pre.heap)
       /\ pre.Nodes[last.to] \in Ptrs(pre.heap)
       /\ LET new == At(heap, pre.Nodes[last.from]).Dependencies
          IN  Len(new) > 0 /\ new[Len(new)] = pre.Nodes[last.to]

\* An edge has been added to a graph that already had one.
C17_Witness ==
  /\ last.op = "AddDependency"
  /\ heap # pre.heap
  /\ NumEdges(pre.heap) > 0

\* ---------------------------------------------------------------------
\* C18 - Every error AddDependency returns is of one of the two kinds and
\* its message holds both package names of the call, from and to.
\* ---------------------------------------------------------------------
C18_ErrorNamesBoth ==
  Failed =>
    /\ last.err.kind \in {"Package not found", "Circular dependency"}
    /\ {last.from, last.to} \subseteq Range(last.err.pkgs)

\* ---------------------------------------------------------------------
\* C19 - New() returns the empty graph: the registry holds no node and
\* there is no edge; on that graph GetDependenciesOfPackage returns the
\* empty list for every name and AddDependency returns the unknown-package
\* error for every pair of names.
\* ---------------------------------------------------------------------
C19_NewIsEmpty ==
  /\ last.op = "New" =>
       /\ \A n \in Names : Nodes[n] = NoNode
       /\ NumEdges(heap) = 0
       /\ \A n \in Names : GetDependenciesOfPackageOf(heap, Nodes, n) = <<>>
       /\ \A from, to \in Names :
            AddDependencyErr(heap, Nodes, from, to).kind = "Package not found"
  /\ (last.op = "GetDependenciesOfPackage" /\ NumNodes(pre.heap) = 0) =>
       last.result = <<>>
  /\ (last.op = "AddDependency" /\ NumNodes(pre.heap) = 0) =>
       last.err.kind = "Package not found" /\ NumNodes(heap) = 0

\* AddDependency has been called on the graph as New returned it.
C19_Witness ==
  /\ last.op = "AddDependency"
  /\ NumNodes(pre.heap) = 0
  /\ last.err.kind = "Package not found"

\* ---------------------------------------------------------------------
\* C20 - The driver surfaces resolver errors: a Compile call whose
\* reloadDependencyGraph got an error from AddDependency (unknown package or
\* cycle) does not run the compiler on a file list, and returns an error.
\* ---------------------------------------------------------------------
C20_ResolverErrorsSurface ==
  \A p \in Procs :
    cc.call[p].dropped # {} =>
      /\ ~cc.call[p].compiled
      /\ cc.call[p].pc = "idle" => cc.call[p].ret \notin {"none", "nil"}

\* ---------------------------------------------------------------------
\* C21 - Compile calls on one Compiler are serialized over the graph: a call
\* is between its Lock and its return exactly when it holds the mutex, so
\* at most one call is there; while a call walks the tree the graph holds
\* the nodes of that walk alone, starting from none; while it ranges over
\* the map every edge starts at a package it has visited; and the graph is
\* never populated a second time.
\* ---------------------------------------------------------------------
InCritical(p) ==
  cc.call[p].pc \in {"Walk", "range", "GetDependencies", "compile"}

C21_MutexSerializes ==
  /\ \A p \in Procs : InCritical(p) <=> cc.mutex = p
  /\ \A p, q \in Procs : InCritical(p) /\ InCritical(q) => p = q
  /\ NumNodes(heap) <= Len(Walk(cc.Root))
  /\ \A p \in Procs :
       /\ cc.call[p].pc = "Walk" =>
            /\ NumNodes(heap) = Len(Walk(cc.Root)) - Len(cc.call[p].walk)
            /\ NumEdges(heap) = 0
       /\ cc.call[p].pc = "range" =>
            /\ NumNodes(heap) = Len(Walk(cc.Root))
            /\ \A q \in Ptrs(heap) :
                 Succ(heap, q) # {} => At(heap, q).Pkg \in cc.call[p].visited

\* One call is adding edges while the other waits for the mutex.
C21_Witness ==
  \E p, q \in Procs :
    /\ cc.call[p].pc = "range"
    /\ NumEdges(heap) > 0
    /\ cc.call[q].pc = "Lock"
    /\ cc.call[q].useClosureDeps

\* ---------------------------------------------------------------------
\* C22 - Visit-once cycle check: the cycle check of one AddDependency(from,
\* to) call is called on each package at most once, also when a package is
\* reachable from to along several paths.
\* ---------------------------------------------------------------------
C22_VisitOnce ==
  BothRegistered =>
    LET calls == isRecursivelyDependentOnWithCacheCalls(
                   pre.heap, pre.Nodes[last.to], last.from, <<>>)
    IN  \A i, j \in 1..Len(calls) :
          i # j => At(pre.heap, calls[i]).Pkg # At(pre.heap, calls[j]).Pkg

\* ---------------------------------------------------------------------
\* C23 - Expand-once traversal: one GetDependencies call expands the
\* dependency sequence of a node at most once, also when the node is
\* reachable from the entries along several paths.
\* ---------------------------------------------------------------------
C23_ExpandOnce ==
  IsQuery =>
    LET expanded == getDependenciesExpanded(heap, last.entries, <<>>)
    IN  \A i, j \in 1..Len(expanded) : i # j => expanded[i] # expanded[j]

\* The entry has an edge to a node and an edge to a dependent of that node.
C23_Witness ==
  /\ IsQuery
  /\ Len(last.entries) = 1
  /\ \E b, c \in Succ(heap, last.entries[1]) :
       /\ b # c
       /\ c \in Succ(heap, b)
       /\ c \in Range(last.result)

\* ---------------------------------------------------------------------
\* C24 - Pure queries: GetDependencies and GetDependenciesOfPackage leave
\* the registry, the node objects, and every node's name, path and
\* dependency sequence as they were before the call.
\* ---------------------------------------------------------------------
C24_PureQueries ==
  IsQuery =>
    /\ Nodes = pre.Nodes
    /\ Ptrs(heap) = Ptrs(pre.heap)
    /\ \A p \in Ptrs(heap) :
         /\ At(heap, p).Pkg = At(pre.heap, p).Pkg
         /\ At(heap, p).Path = At(pre.heap, p).Path
         /\ At(heap, p).Dependencies = At(pre.heap, p).Dependencies

\* GetDependenciesOfPackage has walked an edge.
C24_Witness ==
  /\ last.op = "GetDependenciesOfPackage"
  /\ Len(last.result) >= 2

\* ---------------------------------------------------------------------
\* C25 - Termination: in every reachable graph, re-registrations included,
\* no node object reaches itself by one or more stored edges, so neither
\* recursion comes back to a node it is still expanding and every
\* AddDependency and GetDependencies call ends.
\* ---------------------------------------------------------------------
C25_Terminates ==
  \A p \in Ptrs(heap) : p \notin ReachPlus(heap, p)

\* A query has returned a list that holds a replaced node: the traversal
\* went through an edge that was pushed before the re-registration.
C25_Witness ==
  /\ IsQuery
  /\ \E i \in 1..Len(last.result) :
       last.result[i] # Nodes[At(heap, last.result[i]).Pkg]

\* ---------------------------------------------------------------------
\* C26 - Duplicate edge: when AddDependency(from, to) has succeeded and the
\* next call is AddDependency(from, to) again, that call succeeds too and
\* pushes the node of to once more, and GetDependencies returns for every
\* entry list the list it returned after the first call.
\* ---------------------------------------------------------------------
RepeatsAddDependency ==
  /\ last.op = "AddDependency"
  /\ last.err = NilErr
  /\ last'.op = "AddDependency"
  /\ last'.from = last.from
  /\ last'.to = last.to

DuplicateEdgeStep ==
  RepeatsAddDependency =>
    /\ last'.err = NilErr
    /\ At(heap', Nodes[last.from]).Dependencies =
         Append(At(heap, Nodes[last.from]).Dependencies, Nodes[last.to])
    /\ \A nodes \in SeqsUpTo(Registered(Nodes), MaxEntries + 1) :
         GetDependenciesOf(heap', nodes) = GetDependenciesOf(heap, nodes)

C26_DuplicateEdge == [][DuplicateEdgeStep]_vars

\* The edge pushed by the call is the same as the one before it in the
\* list, and from has a dependent of its own to be asked about.
C26_Witness ==
  /\ last.op = "AddDependency"
  /\ last.err = NilErr
  /\ LET deps == At(heap, Nodes[last.from]).Dependencies
     IN  /\ Len(deps) >= 2
         /\ deps[Len(deps)] = deps[Len(deps) - 1]
         /\ deps[Len(deps)] = Nodes[last.to]

\* ---------------------------------------------------------------------
\* C27 - AddFile(name, path) changes the registry entry of name alone: the
\* entries of the other names and every node object that existed before the
\* call, with its name, path and dependency sequence, are as they were, and
\* the one new object is the node the entry of name now points to.
\* ---------------------------------------------------------------------
C27_AddFileFrame ==
  last.op = "AddFile" =>
    /\ \A n \in Names \ {last.pkg} : Nodes[n] = pre.Nodes[n]
    /\ Ptrs(heap) = Ptrs(pre.heap) \cup {Nodes[last.pkg]}
    /\ Nodes[last.pkg] \notin Ptrs(pre.heap)
    /\ \A p \in Ptrs(pre.heap) : At(heap, p) = At(pre.heap, p)

\* A name is registered again while another node holds an edge to its node
\* and its node holds an edge of its own.
C27_Witness ==
  /\ last.op = "AddFile"
  /\ pre.Nodes[last.pkg] # NoNode
  /\ \E n \in Names \ {last.pkg} :
       /\ Nodes[n] # NoNode
       /\ pre.Nodes[last.pkg] \in Succ(heap, Nodes[n])

\* ---------------------------------------------------------------------
\* C28 - For a source file that provides packages, Compile passes to
\* GetDependencies one entry per provided package, in order, each the node
\* the registry holds for that package; it returns the not-found error only
\* when one of the packages is missing from the registry, and gets past the
\* lookup only when none is.
\* ---------------------------------------------------------------------
C28_EntryPerPackage ==
  \A p \in Procs :
    LET c == cc.call[p]
    IN  /\ (c.pc = "compile" /\ c.useClosureDeps) =>
             /\ last.op = "GetDependencies"
             /\ \A i \in 1..Len(c.srcPkgs) : Nodes[c.srcPkgs[i]] # NoNode
             /\ last.entries = [i \in 1..Len(c.srcPkgs) |-> Nodes[c.srcPkgs[i]]]
        /\ c.ret = "Package not found in Root" =>
             \E i \in 1..Len(c.srcPkgs) : Nodes[c.srcPkgs[i]] = NoNode

====
